---- MODULE Spec2Model ----
(***************************************************************************)
(* Cellosaurus MCP adapter: the tool facade (search_cell_lines,            *)
(* get_cell_line_info, find_cell_lines_by_disease, find_cell_lines_by_     *)
(* tissue), the request models, the parameter builder and the transport    *)
(* client, as a state machine of tool invocations.                         *)
(*                                                                         *)
(* A Python string is a sequence of tokens (words, separators, caller      *)
(* supplied atoms): concatenation is \o, the empty string is <<>>.         *)
(* Python's None is the record None, a present optional value v is         *)
(* Some(v).                                                                *)
(***************************************************************************)
EXTENDS Integers, Sequences, FiniteSets, TLC

VARIABLES pc, args, sent, reply, result, built

vars == <<pc, args, sent, reply, result, built>>

(***************************************************************************)
(* Bounds of the model.                                                    *)
(***************************************************************************)
NumCalls == 2        \* concurrent invocations in SpecConc
MaxFieldsLen == 2    \* longest caller-supplied field list
RowsOver == 2        \* rows arguments up to MaxRows + RowsOver

(***************************************************************************)
(* Program constants.                                                      *)
(***************************************************************************)
MaxRows == 1000
DefaultRows == 10
DefaultStart == 0

None == [none |-> TRUE]
Some(v) == [some |-> v]
IsSome(o) == o # None

EmptyParams == [k \in {} |-> <<>>]

Min(a, b) == IF a < b THEN a ELSE b
Max(a, b) == IF a > b THEN a ELSE b

RECURSIVE Join(_, _)
\* sep.join(parts) for a sequence of strings
Join(parts, sep) ==
    IF parts = <<>> THEN <<>>
    ELSE IF Len(parts) = 1 THEN Head(parts)
    ELSE Head(parts) \o sep \o Join(Tail(parts), sep)

(***************************************************************************)
(* Field vocabulary.                                                       *)
(***************************************************************************)
Vocabulary ==
    { "id", "sy", "idsy", "ac", "acas",
      "dr", "ref", "rx", "ra", "rt", "rl", "ww",
      "genome-ancestry", "hla", "sequence-variation", "cell-type",
      "derived-from-site", "karyotype", "str",
      "di", "ox", "sx", "ag",
      "hi", "ch", "oi", "ca",
      "cc", "dt" }

\* CellosaurusField(code): the enum member of that value, or a ValueError
IsValidField(code) == code \in Vocabulary
CellosaurusField(code) == [enum |-> "CellosaurusField", value |-> code]
ValueErrorText(code) == <<"'", code, "'", " ", "is", " ", "not", " ", "a", " ",
                          "valid", " ", "CellosaurusField">>

DefaultFormat == "json"
Formats == {"json", "txt", "xml", "tsv"}

(***************************************************************************)
(* Request models.  Construction validates; the outcome is the model or    *)
(* the ValidationError naming the offending fields.                        *)
(***************************************************************************)
ValidationError(fields) == [type |-> "ValidationError", fields |-> fields]

SearchRequest(query, fields, start, rows, sort, format) ==
    LET bad == (IF start < 0 THEN {"start"} ELSE {})
               \cup (IF rows < 1 THEN {"rows"} ELSE {})
    IN  IF bad # {}
        THEN [ok |-> FALSE, exc |-> ValidationError(bad)]
        ELSE [ok |-> TRUE,
              model |-> [type |-> "SearchRequest", query |-> query,
                         fields |-> fields, start |-> start,
                         rows |-> Min(rows, MaxRows), sort |-> sort,
                         format |-> format]]

CellLineRequest(accession, fields, format) ==
    IF accession = <<>>
    THEN [ok |-> FALSE, exc |-> ValidationError({"accession"})]
    ELSE [ok |-> TRUE,
          model |-> [type |-> "CellLineRequest", accession |-> accession,
                     fields |-> fields, format |-> format]]

(***************************************************************************)
(* Parameter builder.                                                      *)
(***************************************************************************)
FieldValues(enums) == [k \in 1..Len(enums) |-> <<enums[k].value>>]

BuildParamsAlwaysFormat(request) ==
    (IF request.type = "SearchRequest"
     THEN [q |-> request.query, start |-> request.start, rows |-> request.rows]
          @@ (IF IsSome(request.sort) THEN "sort" :> request.sort.some
              ELSE EmptyParams)
     ELSE EmptyParams)
    @@ (IF IsSome(request.fields) /\ request.fields.some # <<>>
        THEN "fields" :> Join(FieldValues(request.fields.some), <<",">>)
        ELSE EmptyParams)
    @@ ("format" :> <<request.format>>)

BuildParams(request) ==
    (IF request.type = "SearchRequest"
     THEN [q |-> request.query, start |-> request.start, rows |-> request.rows]
          @@ (IF IsSome(request.sort) THEN "sort" :> request.sort.some
              ELSE EmptyParams)
     ELSE EmptyParams)
    @@ (IF IsSome(request.fields) /\ request.fields.some # <<>>
        THEN "fields" :> Join(FieldValues(request.fields.some), <<",">>)
        ELSE EmptyParams)
    @@ (IF request.format # DefaultFormat
        THEN "format" :> <<request.format>>
        ELSE EmptyParams)

(***************************************************************************)
(* Transport client: one HTTP GET per call.                                *)
(***************************************************************************)
BASE_URL == <<"https://api.cellosaurus.org">>

ClientSearchCellLines(request) ==
    [method |-> "GET", url |-> BASE_URL \o <<"/search/cell-line">>,
     params |-> BuildParams(request)]

ClientGetCellLine(request) ==
    [method |-> "GET", url |-> BASE_URL \o <<"/cell-line/">> \o request.accession,
     params |-> BuildParams(request)]

\* the remote service's JSON answer to a request
RemoteJson(request, hits) == [total_found |-> hits, served |-> request]

Ok(json) == [ok |-> TRUE, json |-> json]
Failed(detail) == [ok |-> FALSE, detail |-> detail]

(***************************************************************************)
(* Tool facade.  A step of a tool ends by returning a value, by raising,   *)
(* or by suspending on the one HTTP request.                               *)
(***************************************************************************)
Return(v) == [act |-> "return", value |-> v]
Raise(e) == [act |-> "raise", exc |-> e]
Await(r) == [act |-> "await", request |-> r]

ErrorPayload(msg) == [error |-> msg]

InvalidFieldPrefix == <<"Invalid", " ", "field", " ", "specified:", " ">>
SearchFailedPrefix == <<"Search", " ", "failed:", " ">>
InfoFailedPrefix == <<"Failed", " ", "to", " ", "get", " ", "cell", " ", "line",
                      " ", "info:", " ">>

Truthy(fields) == IsSome(fields) /\ fields.some # <<>>

FirstInvalid(codes) ==
    codes[CHOOSE k \in 1..Len(codes) :
            /\ ~IsValidField(codes[k])
            /\ \A j \in 1..(k - 1) : IsValidField(codes[j])]

ParseFieldsDropUnknown(fields) ==
    IF Truthy(fields)
    THEN [ok |-> TRUE,
          field_enums |-> Some(SelectSeq(
              [k \in 1..Len(fields.some) |-> CellosaurusField(fields.some[k])],
              LAMBDA f : IsValidField(f.value)))]
    ELSE [ok |-> TRUE, field_enums |-> None]

ParseFields(fields) ==
    IF Truthy(fields)
    THEN IF \A k \in 1..Len(fields.some) : IsValidField(fields.some[k])
         THEN [ok |-> TRUE,
               field_enums |-> Some([k \in 1..Len(fields.some) |->
                                        CellosaurusField(fields.some[k])])]
         ELSE [ok |-> FALSE,
               error |-> InvalidFieldPrefix
                         \o ValueErrorText(FirstInvalid(fields.some))]
    ELSE [ok |-> TRUE, field_enums |-> None]

ClampRowsMax(rows) == Max(rows, MaxRows)

ClampRows(rows) == Min(rows, MaxRows)

SearchCellLinesHelper(query, fields, start, rows, sort_order) ==
    LET p == ParseFields(fields) IN
    IF ~p.ok THEN Return(ErrorPayload(p.error))
    ELSE LET m == SearchRequest(query, p.field_enums, start, ClampRows(rows),
                                sort_order, DefaultFormat)
         IN  IF ~m.ok THEN Raise(m.exc)
             ELSE Await(ClientSearchCellLines(m.model))

GetCellLineInfoHelper(accession, fields) ==
    LET p == ParseFields(fields) IN
    IF ~p.ok THEN Return(ErrorPayload(p.error))
    ELSE LET m == CellLineRequest(accession, p.field_enums, DefaultFormat)
         IN  IF ~m.ok THEN Raise(m.exc)
             ELSE Await(ClientGetCellLine(m.model))

SearchResumeRetry(request, outcome) ==
    IF outcome.ok THEN Return(outcome.json) ELSE Await(request)

SearchResumeReshape(request, outcome) ==
    IF outcome.ok THEN Return([results |-> outcome.json])
    ELSE Return(ErrorPayload(SearchFailedPrefix \o outcome.detail))

\* the search helper after its await
SearchResume(request, outcome) ==
    IF outcome.ok THEN Return(outcome.json)
    ELSE Return(ErrorPayload(SearchFailedPrefix \o outcome.detail))

InfoResumeSearchPrefix(request, outcome) ==
    IF outcome.ok THEN Return(outcome.json)
    ELSE Return(ErrorPayload(SearchFailedPrefix \o outcome.detail))

\* the lookup helper after its await
InfoResume(request, outcome) ==
    IF outcome.ok THEN Return(outcome.json)
    ELSE Return(ErrorPayload(InfoFailedPrefix \o outcome.detail))

DiseaseDefaultFields == <<"id", "ac", "di", "ox", "derived-from-site">>
TissueDefaultFields == <<"id", "ac", "derived-from-site", "ox", "cell-type">>

QueryPartsAlwaysSpecies(term, subject, species) ==
    << <<term>> \o subject, <<"ox:">> \o species >>

\* query_parts = [f"<term>{subject}"], plus f"ox:{species}" if species
QueryParts(term, subject, species) ==
    IF species # <<>>
    THEN << <<term>> \o subject, <<"ox:">> \o species >>
    ELSE << <<term>> \o subject >>

FieldsOrDefaultIfNone(fields, default) ==
    IF IsSome(fields) THEN fields ELSE Some(default)

\* fields or default
FieldsOrDefault(fields, default) ==
    IF Truthy(fields) THEN fields ELSE Some(default)

FindCellLinesByDiseaseHelper(disease, species, fields, limit) ==
    SearchCellLinesHelper(Join(QueryParts("di:", disease, species), <<" ">>),
                          FieldsOrDefault(fields, DiseaseDefaultFields),
                          DefaultStart, limit, None)

FindCellLinesByTissueHelper(tissue, species, fields, limit) ==
    SearchCellLinesHelper(Join(QueryParts("derived-from-site:", tissue, species),
                               <<" ">>),
                          FieldsOrDefault(fields, TissueDefaultFields),
                          DefaultStart, limit, None)

(***************************************************************************)
(* Inputs.                                                                 *)
(***************************************************************************)
Calls == 1..NumCalls

FieldCodeInputs == {"id", "ac", "str", "invalid_field"}

FieldLists(codes, n) == UNION {[1..k -> codes] : k \in 0..n}

WideInputs ==
    [ queries    |-> {<<"id:HeLa">>, <<>>},
      fields     |-> {None} \cup {Some(l) : l \in FieldLists(FieldCodeInputs, MaxFieldsLen)},
      starts     |-> {-1, DefaultStart, 10},
      rows       |-> {0, 1, 5, DefaultRows, MaxRows}
                     \cup ((MaxRows + 1)..(MaxRows + RowsOver)),
      sorts      |-> {None, Some(<<"group", " ", "asc">>)},
      accessions |-> {<<"CVCL_0030">>, <<>>},
      subjects   |-> {<<"hepatoblastoma">>, <<"liver">>},
      species    |-> {<<"human">>, <<>>},
      hits       |-> {0, 2},
      details    |-> {<<>>, <<"timed", " ", "out">>, <<"404", " ", "Not", " ", "Found">>,
                      <<"Expecting", " ", "value">>} ]

NarrowInputs ==
    [ queries    |-> {<<"id:HeLa">>},
      fields     |-> {None, Some(<<"ac">>), Some(<<"invalid_field">>)},
      starts     |-> {DefaultStart},
      rows       |-> {DefaultRows, MaxRows + 1},
      sorts      |-> {None},
      accessions |-> {<<"CVCL_0030">>, <<>>},
      subjects   |-> {<<"liver">>},
      species    |-> {<<"human">>},
      hits       |-> {2},
      details    |-> {<<"timed", " ", "out">>} ]

(***************************************************************************)
(* State machine.                                                          *)
(***************************************************************************)
NoCall == [tool |-> "none"]

Init ==
    /\ pc = [i \in Calls |-> "idle"]
    /\ args = [i \in Calls |-> NoCall]
    /\ sent = [i \in Calls |-> <<>>]
    /\ reply = [i \in Calls |-> None]
    /\ result = [i \in Calls |-> None]
    /\ built = None

ReceiverOldestAwaiting(i) ==
    CHOOSE j \in Calls : pc[j] = "awaiting" /\ \A k \in Calls : pc[k] = "awaiting" => j <= k

\* the call whose coroutine receives the answer to call i's request
Receiver(i) == i

\* the frame of call i runs until it returns, raises or suspends
Advance(i, out) ==
    /\ pc' = [pc EXCEPT ![i] = IF out.act = "await" THEN "awaiting" ELSE "done"]
    /\ sent' = [sent EXCEPT ![i] = IF out.act = "await"
                                   THEN Append(@, out.request) ELSE @]
    /\ result' = [result EXCEPT ![i] =
                     IF out.act = "return" THEN [kind |-> "return", value |-> out.value]
                     ELSE IF out.act = "raise" THEN [kind |-> "raise", exc |-> out.exc]
                     ELSE None]

Invoke(i, a, out) ==
    /\ args' = [args EXCEPT ![i] = a]
    /\ Advance(i, out)
    /\ UNCHANGED <<reply, built>>

SearchCellLines(i, In) ==
    /\ pc[i] = "idle"
    /\ \E q \in In.queries, f \in In.fields, s \in In.starts, r \in In.rows,
          o \in In.sorts :
           Invoke(i, [tool |-> "search_cell_lines", query |-> q, fields |-> f,
                      start |-> s, rows |-> r, sort_order |-> o],
                  SearchCellLinesHelper(q, f, s, r, o))

GetCellLineInfo(i, In) ==
    /\ pc[i] = "idle"
    /\ \E a \in In.accessions, f \in In.fields :
           Invoke(i, [tool |-> "get_cell_line_info", accession |-> a, fields |-> f],
                  GetCellLineInfoHelper(a, f))

FindCellLinesByDisease(i, In) ==
    /\ pc[i] = "idle"
    /\ \E d \in In.subjects, sp \in In.species, f \in In.fields, l \in In.rows :
           Invoke(i, [tool |-> "find_cell_lines_by_disease", disease |-> d,
                      species |-> sp, fields |-> f, limit |-> l],
                  FindCellLinesByDiseaseHelper(d, sp, f, l))

FindCellLinesByTissue(i, In) ==
    /\ pc[i] = "idle"
    /\ \E t \in In.subjects, sp \in In.species, f \in In.fields, l \in In.rows :
           Invoke(i, [tool |-> "find_cell_lines_by_tissue", tissue |-> t,
                      species |-> sp, fields |-> f, limit |-> l],
                  FindCellLinesByTissueHelper(t, sp, f, l))

Resume(tool, request, outcome) ==
    IF tool = "get_cell_line_info" THEN InfoResume(request, outcome)
    ELSE SearchResume(request, outcome)

LastSent(i) == sent[i][Len(sent[i])]

\* the answer to call i's pending request arrives and the awaiting frame resumes
Deliver(i, outcome) ==
    LET j == Receiver(i) IN
        /\ reply' = [reply EXCEPT ![j] = Some(outcome)]
        /\ Advance(j, Resume(args[j].tool, LastSent(j), outcome))
        /\ UNCHANGED <<args, built>>

RemoteResponds(i, In) ==
    /\ pc[i] = "awaiting"
    /\ \E n \in In.hits :
           Deliver(i, Ok(RemoteJson(LastSent(i), n)))

TransportFails(i, In) ==
    /\ pc[i] = "awaiting"
    /\ \E d \in In.details :
           Deliver(i, Failed(d))

Next ==
    \/ SearchCellLines(1, WideInputs)
    \/ GetCellLineInfo(1, WideInputs)
    \/ FindCellLinesByDisease(1, WideInputs)
    \/ FindCellLinesByTissue(1, WideInputs)
    \/ RemoteResponds(1, WideInputs)
    \/ TransportFails(1, WideInputs)

Spec == Init /\ [][Next]_vars

NextConc ==
    \E i \in Calls :
        \/ SearchCellLines(i, NarrowInputs)
        \/ GetCellLineInfo(i, NarrowInputs)
        \/ FindCellLinesByDisease(i, NarrowInputs)
        \/ FindCellLinesByTissue(i, NarrowInputs)
        \/ RemoteResponds(i, NarrowInputs)
        \/ TransportFails(i, NarrowInputs)

SpecConc == Init /\ [][NextConc]_vars

(***************************************************************************)
(* Direct use of the parameter builder on request models.                  *)
(***************************************************************************)
ValidFieldCodes == {c \in FieldCodeInputs : IsValidField(c)}

FieldEnumInputs ==
    {None} \cup {Some([k \in 1..Len(l) |-> CellosaurusField(l[k])]) :
                    l \in FieldLists(ValidFieldCodes, MaxFieldsLen)}

Built(m) ==
    /\ m.ok
    /\ built' = Some([request |-> m.model, params |-> BuildParams(m.model)])
    /\ UNCHANGED <<pc, args, sent, reply, result>>

BuildSearchParams ==
    /\ built = None
    /\ \E q \in WideInputs.queries, f \in FieldEnumInputs, s \in WideInputs.starts,
          r \in WideInputs.rows, o \in WideInputs.sorts, fmt \in Formats :
           Built(SearchRequest(q, f, s, r, o, fmt))

BuildCellLineParams ==
    /\ built = None
    /\ \E a \in WideInputs.accessions, f \in FieldEnumInputs, fmt \in Formats :
           Built(CellLineRequest(a, f, fmt))

NextBuild == BuildSearchParams \/ BuildCellLineParams

SpecBuild == Init /\ [][NextBuild]_vars

(***************************************************************************)
(* Properties.                                                             *)
(***************************************************************************)
Contains(s, sub) ==
    \E k \in 0..(Len(s) - Len(sub)) : SubSeq(s, k + 1, k + Len(sub)) = sub

\* s is the strings of codes joined by commas, in order
IsCommaJoin(s, codes) ==
    /\ Len(s) = 2 * Len(codes) - 1
    /\ \A k \in 1..Len(codes) : s[2 * k - 1] = codes[k]
    /\ \A k \in 1..(Len(codes) - 1) : s[2 * k] = ","

HasInvalid(fields) ==
    IsSome(fields) /\ \E k \in 1..Len(fields.some) : fields.some[k] \notin Vocabulary

IsErrorPayload(r) == r.kind = "return" /\ DOMAIN r.value = {"error"}

DirectTools == {"search_cell_lines", "get_cell_line_info"}
FindTools == {"find_cell_lines_by_disease", "find_cell_lines_by_tissue"}
SearchTools == {"search_cell_lines"} \cup FindTools

AsResult(out) ==
    IF out.act = "return" THEN [kind |-> "return", value |-> out.value]
    ELSE [kind |-> "raise", exc |-> out.exc]

\* C1: a search_cell_lines or get_cell_line_info call whose fields list holds
\* a code outside the vocabulary, at any position, has returned an error
\* payload whose message contains "Invalid field", and has sent no request.
C1_InvalidFieldRejected ==
    \A i \in Calls :
        (args[i].tool \in DirectTools /\ HasInvalid(args[i].fields)) =>
            /\ pc[i] = "done"
            /\ sent[i] = <<>>
            /\ IsErrorPayload(result[i])
            /\ Contains(result[i].value.error, <<"Invalid", " ", "field">>)

C1_Witness ==
    \E i \in Calls :
        /\ args[i].tool = "get_cell_line_info"
        /\ args[i].fields = Some(<<"id", "invalid_field">>)
        /\ pc[i] = "done"
        /\ result[i].value.error =
               <<"Invalid", " ", "field", " ", "specified:", " ", "'",
                 "invalid_field", "'", " ", "is", " ", "not", " ", "a", " ",
                 "valid", " ", "CellosaurusField">>

\* C2: a call whose transport request failed with detail d has returned, not
\* raised: {"error": "Search failed: d"} from the search helper (search and
\* the two find tools), {"error": "Failed to get cell line info: d"} from
\* get_cell_line_info.
C2_TransportFailureReturned ==
    \A i \in Calls :
        (pc[i] = "done" /\ IsSome(reply[i]) /\ ~reply[i].some.ok) =>
            result[i] =
                [kind |-> "return",
                 value |-> [error |->
                    (IF args[i].tool = "get_cell_line_info"
                     THEN <<"Failed", " ", "to", " ", "get", " ", "cell", " ",
                            "line", " ", "info:", " ">>
                     ELSE <<"Search", " ", "failed:", " ">>)
                    \o reply[i].some.detail]]

C2_Witness ==
    \E i \in Calls :
        /\ args[i].tool = "get_cell_line_info"
        /\ args[i].accession = <<"CVCL_0030">>
        /\ pc[i] = "done"
        /\ reply[i] = Some(Failed(<<"timed", " ", "out">>))
        /\ result[i].kind = "return"

\* C3: every finished call has returned a value (no exception crosses the
\* facade), and a call rejected before any request was sent has returned an
\* error payload.
C3_NoExceptionCrosses ==
    \A i \in Calls :
        pc[i] = "done" =>
            /\ result[i].kind = "return"
            /\ (sent[i] = <<>> => IsErrorPayload(result[i]))

RowsArg(a) == IF a.tool = "search_cell_lines" THEN a.rows ELSE a.limit

OtherArgsValid(a) ==
    /\ ~HasInvalid(a.fields)
    /\ (a.tool = "search_cell_lines" => a.start >= 0)

\* C4: for a search (direct, or through the find tools with limit) no request
\* on the wire has rows > 1000; a rows argument above 1000 (other arguments
\* valid) is not rejected and goes out as rows = 1000; rows in 1..1000 go out
\* unchanged; clamping a clamped value changes nothing.
C4_RowsClamped ==
    \A i \in Calls :
        args[i].tool \in SearchTools =>
            LET r == RowsArg(args[i]) IN
            /\ \A k \in 1..Len(sent[i]) : sent[i][k].params.rows <= MaxRows
            /\ (r > MaxRows /\ OtherArgsValid(args[i])) =>
                   (sent[i] # <<>> /\ sent[i][1].params.rows = MaxRows)
            /\ (r \in 1..MaxRows /\ sent[i] # <<>>) => sent[i][1].params.rows = r
            /\ ClampRows(ClampRows(r)) = ClampRows(r)

C4_Witness ==
    \E i \in Calls :
        /\ args[i].tool = "find_cell_lines_by_tissue"
        /\ args[i].limit = MaxRows + 1
        /\ pc[i] = "done"
        /\ IsSome(reply[i])
        /\ reply[i].some.ok
        /\ sent[i][1].params.rows = MaxRows

\* C5: a call whose transport request succeeded with JSON value v has
\* returned exactly v.
C5_SuccessPassThrough ==
    \A i \in Calls :
        (pc[i] = "done" /\ IsSome(reply[i]) /\ reply[i].some.ok) =>
            result[i] = [kind |-> "return", value |-> reply[i].some.json]

C5_Witness ==
    \E i \in Calls :
        /\ args[i].tool = "search_cell_lines"
        /\ args[i].rows = 5
        /\ pc[i] = "done"
        /\ IsSome(reply[i])
        /\ reply[i].some.ok
        /\ result[i].kind = "return"
        /\ result[i].value = RemoteJson(sent[i][1], 2)

\* C6: the parameters built from a request model are: for a SearchRequest
\* q = query, start and rows verbatim, fields iff the field list is non-empty
\* (the codes joined by commas in order), sort iff a sort was given, format
\* iff it is not "json"; for a CellLineRequest the same fields and format
\* rules and never q, start or rows.
C6_BuildParams ==
    IsSome(built) =>
        LET m == built.some.request
            p == built.some.params
            hasFields == IsSome(m.fields) /\ Len(m.fields.some) > 0
            optional == (IF hasFields THEN {"fields"} ELSE {})
                        \cup (IF m.format # "json" THEN {"format"} ELSE {})
        IN  /\ hasFields =>
                 IsCommaJoin(p.fields,
                             [k \in 1..Len(m.fields.some) |-> m.fields.some[k].value])
            /\ m.format # "json" => p.format = <<m.format>>
            /\ IF m.type = "SearchRequest"
               THEN /\ DOMAIN p = {"q", "start", "rows"} \cup optional
                                  \cup (IF IsSome(m.sort) THEN {"sort"} ELSE {})
                    /\ p.q = m.query
                    /\ p.start = m.start
                    /\ p.rows = m.rows
                    /\ IsSome(m.sort) => p.sort = m.sort.some
               ELSE DOMAIN p = optional

C6_Witness ==
    /\ IsSome(built)
    /\ built.some.request.type = "SearchRequest"
    /\ built.some.request.fields = Some(<<CellosaurusField("id"), CellosaurusField("ac")>>)
    /\ built.some.request.start = 10
    /\ built.some.params.q = <<"id:HeLa">>
    /\ built.some.params.fields = <<"id", ",", "ac">>
    /\ "format" \notin DOMAIN built.some.params

FindTerm(a) ==
    IF a.tool = "find_cell_lines_by_disease" THEN "di:" ELSE "derived-from-site:"
FindSubject(a) ==
    IF a.tool = "find_cell_lines_by_disease" THEN a.disease ELSE a.tissue
FindDefault(a) ==
    IF a.tool = "find_cell_lines_by_disease"
    THEN <<"id", "ac", "di", "ox", "derived-from-site">>
    ELSE <<"id", "ac", "derived-from-site", "ox", "cell-type">>
FindQuery(a) ==
    <<FindTerm(a)>> \o FindSubject(a)
    \o (IF a.species = <<>> THEN <<>> ELSE <<" ", "ox:">> \o a.species)
FindFields(a) ==
    IF IsSome(a.fields) /\ a.fields.some # <<>> THEN a.fields.some ELSE FindDefault(a)

\* C7: a find_cell_lines_by_disease / find_cell_lines_by_tissue call is the
\* search call with query "<term><subject> ox:<species>" (no ox term and no
\* space for an empty species), rows = limit, and the caller's fields when
\* given (non-empty), else the tool's default fields; its result is that
\* search call's result.
C7_FindDelegates ==
    \A i \in Calls :
        args[i].tool \in FindTools =>
            LET a == args[i]
                search == SearchCellLinesHelper(FindQuery(a), Some(FindFields(a)),
                                                0, a.limit, None)
            IN  /\ sent[i] # <<>> =>
                     /\ sent[i] = <<search.request>>
                     /\ sent[i][1].params.q = FindQuery(a)
                     /\ sent[i][1].params.rows = Min(a.limit, 1000)
                     /\ "fields" \in DOMAIN sent[i][1].params
                     /\ IsCommaJoin(sent[i][1].params.fields, FindFields(a))
                /\ pc[i] = "awaiting" => search.act = "await" /\ sent[i] # <<>>
                /\ pc[i] = "done" =>
                     IF search.act = "await"
                     THEN /\ sent[i] # <<>>
                          /\ IsSome(reply[i])
                          /\ result[i] = AsResult(SearchResume(search.request,
                                                               reply[i].some))
                     ELSE sent[i] = <<>> /\ result[i] = AsResult(search)

C7_Witness ==
    \E i \in Calls :
        /\ args[i] = [tool |-> "find_cell_lines_by_disease",
                      disease |-> <<"hepatoblastoma">>, species |-> <<"human">>,
                      fields |-> None, limit |-> 5]
        /\ pc[i] = "done"
        /\ sent[i][1].params.q = <<"di:", "hepatoblastoma", " ", "ox:", "human">>
        /\ sent[i][1].params.fields =
               <<"id", ",", "ac", ",", "di", ",", "ox", ",", "derived-from-site">>
        /\ sent[i][1].params.rows = 5

\* the outcome of a tool's first step, from the call's own arguments
OwnOutcome(a) ==
    IF a.tool = "search_cell_lines"
    THEN SearchCellLinesHelper(a.query, a.fields, a.start, a.rows, a.sort_order)
    ELSE IF a.tool = "get_cell_line_info"
    THEN GetCellLineInfoHelper(a.accession, a.fields)
    ELSE IF a.tool = "find_cell_lines_by_disease"
    THEN FindCellLinesByDiseaseHelper(a.disease, a.species, a.fields, a.limit)
    ELSE FindCellLinesByTissueHelper(a.tissue, a.species, a.fields, a.limit)

ValidCall(a) ==
    /\ ~HasInvalid(a.fields)
    /\ a.tool = "search_cell_lines" => a.start >= 0 /\ a.rows >= 1
    /\ a.tool = "get_cell_line_info" => a.accession # <<>>
    /\ a.tool \in FindTools => a.limit >= 1

C9_GetCount ==
    \A i \in Calls :
        /\ Len(sent[i]) <= 1
        /\ pc[i] = "idle" => sent[i] = <<>>
        /\ pc[i] = "awaiting" => Len(sent[i]) = 1 /\ ValidCall(args[i])
        /\ pc[i] = "done" =>
             /\ Len(sent[i]) = (IF ValidCall(args[i]) THEN 1 ELSE 0)
             /\ result[i] # None
             /\ IsSome(reply[i]) <=> sent[i] # <<>>

C9_Settled ==
    \A i \in Calls :
        /\ pc[i] = "done" =>
             pc'[i] = "done" /\ sent'[i] = sent[i] /\ result'[i] = result[i]
        /\ (reply[i] = None /\ IsSome(reply'[i])) => pc'[i] = "done"

\* C9: an invocation issues at most one HTTP GET: exactly one when field
\* parsing and model validation succeed, none when they fail, and no second
\* one after a transport failure; once the answer to that request is
\* delivered the invocation is finished, and a finished invocation sends
\* nothing more and keeps its result.
C9_AtMostOneGet == [](C9_GetCount) /\ [][C9_Settled]_vars

C9_Witness ==
    \E i \in Calls :
        /\ pc[i] = "done"
        /\ IsSome(reply[i])
        /\ ~reply[i].some.ok
        /\ Len(sent[i]) = 1
        /\ args[i].tool = "search_cell_lines"

\* C10: fields = [] is treated like an absent fields argument: the direct
\* tools validate nothing, report no "Invalid field" and send a request with
\* no fields parameter (their first step is the one of the same call with
\* fields absent); the find tools send their default field list.
C10_EmptyFieldsAsAbsent ==
    \A i \in Calls :
        (pc[i] # "idle" /\ args[i].fields = Some(<<>>)) =>
            LET a == args[i] IN
            /\ a.tool \in DirectTools =>
                 /\ OwnOutcome(a) = OwnOutcome([a EXCEPT !.fields = None])
                 /\ ValidCall(a) => sent[i] # <<>>
                 /\ \A k \in 1..Len(sent[i]) :
                        "fields" \notin DOMAIN sent[i][k].params
                 /\ (pc[i] = "done" /\ IsErrorPayload(result[i])) =>
                        ~Contains(result[i].value.error, <<"Invalid", " ", "field">>)
            /\ a.tool \in FindTools =>
                 /\ ValidCall(a) => sent[i] # <<>>
                 /\ \A k \in 1..Len(sent[i]) :
                        /\ "fields" \in DOMAIN sent[i][k].params
                        /\ IsCommaJoin(sent[i][k].params.fields, FindDefault(a))

C10_Witness ==
    /\ \E i \in Calls :
        /\ args[i].tool = "find_cell_lines_by_tissue"
        /\ args[i].fields = Some(<<>>)
        /\ pc[i] = "awaiting"
        /\ sent[i][1].params.fields =
               <<"id", ",", "ac", ",", "derived-from-site", ",", "ox", ",", "cell-type">>

====
